---- MODULE Spec2Model ----
(***************************************************************************)
(* Sandbox bootstrap orchestrator (WebContainerPreview.setupContainer),    *)
(* the shared process registry (ProcessManager) and the project analyzer   *)
(* (analyzeProject), modelled as one state machine.                        *)
(*                                                                         *)
(* React state is modelled by its committed values.  The setup effect is   *)
(* one step (render + effect) that becomes enabled whenever one of its     *)
(* dependencies differs from the value it had when the effect last ran;    *)
(* any number of other events may happen before that step.  Every await of *)
(* setupContainer is a point where other tasks may run, so each awaited    *)
(* call is its own action.                                                 *)
(***************************************************************************)
EXTENDS Integers, Sequences, FiniteSets, TLC

Null == "null"        \* null / undefined of a string-valued field
NoCommand == <<>>      \* null command pair
NoProc == 0            \* no process id

\* ---------------------------------------------------------------- bounds
MaxRuns == 2            \* bootstrap runs started in one behaviour
MaxProcs == 2           \* processes registered through the registry API
MaxScripts == 3         \* scripts declared in a manifest given to the analyzer
MaxTermIds == 4         \* terminal ids handed out by addTerminal
MaxRequests == 3        \* POST requests received by the suggestion route
MaxPreInstall == 2      \* pre-install commands in a plan

\* ------------------------------------------------------- program constants
\* An off-by-one retry budget.
MAX_RETRIES_Three == 2 + 1

MAX_RETRIES == 2
totalSteps == 5

RunIds == 1..MaxRuns
ProcIds == 1..(MaxRuns + MaxProcs + 1)
Ports == {3000, 5173}
NoPort == 0            \* port undefined
TabsListener == 1      \* the listener TerminalTabs subscribes on mount
ListenerIds == {TabsListener, 2}   \* listener functions passed to subscribe
Urls == {"http://localhost:3000", "http://localhost:5173"}

\* Lockfiles removed before install, in the order of the source array.
lockfiles == <<"package-lock.json", "yarn.lock", "pnpm-lock.yaml", "bun.lockb", "bun.lock">>

\* ------------------------------------------------------ project templates
\* The content of package.json as the analyzer sees it: whether readFile
\* resolves, whether JSON.parse and the property reads on its result
\* succeed, whether pkg.scripts is truthy, and the declared scripts in
\* declaration order, each <<name, the command is truthy (non-empty)>>.
Manifest(ok, parses, hasScripts, scripts) ==
  [ok |-> ok, parses |-> parses, hasScripts |-> hasScripts, scripts |-> scripts]

\* No package.json in the sandbox: readFile rejects.
NoManifest == Manifest(FALSE, FALSE, FALSE, <<>>)

\* A template is the root listing that mount writes into the sandbox and
\* the manifest it contains.
Templates ==
  [ node   |-> [files |-> {"package.json", "package-lock.json", "index.html"},
                 pkg |-> Manifest(TRUE, TRUE, TRUE, <<<<"build", TRUE>>, <<"dev", TRUE>>>>)],
    static |-> [files |-> {"index.html"},
                 pkg |-> NoManifest],
    python |-> [files |-> {"requirements.txt"},
                 pkg |-> NoManifest] ]

TemplateNames == DOMAIN Templates

\* ------------------------------------------------------- project analyzer
Includes(files, name) == name \in files

\* A lookup that tests lockfiles in the order yarn, bun, pnpm, npm.
detectPackageManager_YarnFirst(files) ==
  IF Includes(files, "yarn.lock") THEN "yarn"
  ELSE IF Includes(files, "bun.lockb") \/ Includes(files, "bun.lock") THEN "bun"
  ELSE IF Includes(files, "pnpm-lock.yaml") THEN "pnpm"
  ELSE IF Includes(files, "package-lock.json") THEN "npm"
  ELSE Null

detectPackageManager(files) ==
  IF Includes(files, "bun.lockb") \/ Includes(files, "bun.lock") THEN "bun"
  ELSE IF Includes(files, "pnpm-lock.yaml") THEN "pnpm"
  ELSE IF Includes(files, "yarn.lock") THEN "yarn"
  ELSE IF Includes(files, "package-lock.json") THEN "npm"
  ELSE Null

getInstallCommand(packageManager) ==
  CASE packageManager = "yarn" -> <<"yarn", <<"install", "--non-interactive">>>>
    [] packageManager = "pnpm" -> <<"pnpm", <<"install", "--no-frozen-lockfile">>>>
    [] packageManager = "bun"  -> <<"bun", <<"install">>>>
    [] OTHER -> <<"npm", <<"install", "--yes", "--no-audit", "--no-fund",
                           "--loglevel=warn", "--legacy-peer-deps",
                           "--prefer-offline", "--ignore-scripts",
                           "--progress=true">>>>

\* Truthiness of pkg.scripts[name]: declared with a non-empty value.
ScriptTruthy(scripts, name) ==
  \E i \in 1..Len(scripts) : scripts[i][1] = name /\ scripts[i][2]

\* Property names that are array indices, in ascending numeric order.
IndexKeys == <<"0", "1">>

\* Object.keys(pkg.scripts): array-index names first, in ascending numeric
\* order, then the other names in the order they were declared.
ObjectKeys(scripts) ==
  LET Declared(n) == \E i \in 1..Len(scripts) : scripts[i][1] = n
      IsIndex(n) == \E k \in 1..Len(IndexKeys) : IndexKeys[k] = n
      Named(e) == ~IsIndex(e[1])
      rest == SelectSeq(scripts, Named)
  IN SelectSeq(IndexKeys, Declared) \o [i \in 1..Len(rest) |-> rest[i][1]]

\* const firstScript = Object.keys(pkg.scripts)[0]; if (firstScript) ...
FirstScript(scripts) ==
  IF Len(ObjectKeys(scripts)) > 0 /\ ObjectKeys(scripts)[1] # ""
    THEN ObjectKeys(scripts)[1] ELSE "dev"

\* A choice that tests start before dev.
chooseStartScript_StartFirst(pkg) ==
  IF ~pkg.ok \/ ~pkg.parses \/ ~pkg.hasScripts THEN "dev"
  ELSE IF ScriptTruthy(pkg.scripts, "start") THEN "start"
  ELSE IF ScriptTruthy(pkg.scripts, "dev") THEN "dev"
  ELSE IF ScriptTruthy(pkg.scripts, "preview") THEN "preview"
  ELSE FirstScript(pkg.scripts)

\* The start script: 'dev' unless the manifest was read and parsed and a
\* later rule replaces it; an exception in the block is caught and logged.
chooseStartScript(pkg) ==
  IF ~pkg.ok \/ ~pkg.parses \/ ~pkg.hasScripts THEN "dev"
  ELSE IF ScriptTruthy(pkg.scripts, "dev") THEN "dev"
  ELSE IF ScriptTruthy(pkg.scripts, "start") THEN "start"
  ELSE IF ScriptTruthy(pkg.scripts, "preview") THEN "preview"
  ELSE FirstScript(pkg.scripts)

\* File names of a root listing and f.toLowerCase() of each.
RootNames ==
  {"package.json", "requirements.txt", "Dockerfile", "app.DOCKERFILE",
   "docker-compose.yml", "index.html", "README.md"}

toLowerCase(f) ==
  CASE f = "Dockerfile" -> "dockerfile"
    [] f = "app.DOCKERFILE" -> "app.dockerfile"
    [] f = "README.md" -> "readme.md"
    [] OTHER -> f

\* A test for the substring 'dockerfile' on the name as written.
IsDockerName_CaseSensitive(f) == f \in {"dockerfile", "app.dockerfile"}

\* f.toLowerCase().includes('dockerfile')
IsDockerName(f) == toLowerCase(f) \in {"dockerfile", "app.dockerfile"}

UnknownAnalysis(reason) ==
  [type |-> "unknown", installCommand |-> NoCommand, preInstallCommands |-> <<>>,
   startCommand |-> NoCommand, reason |-> reason, packageManager |-> Null,
   shouldRemoveLockfile |-> FALSE]

\* Manifest handling without the inner try/catch: a failed read or parse
\* leaves the block and reaches the outer catch.
ManifestErrorEscapes_NoInnerCatch(pkg) == ~pkg.ok \/ ~pkg.parses

\* Whether an exception thrown while reading or parsing package.json
\* leaves the inner try: it never does, the inner catch logs it.
ManifestErrorEscapes(pkg) == FALSE

\* analyzeProject without its outer try/catch: a failed readdir propagates.
AnalysisRaises_NoOuterCatch(readdirOk, files, pkg) == ~readdirOk

\* Whether an exception leaves analyzeProject: the outer try/catch spans
\* the whole body.
AnalysisRaises(readdirOk, files, pkg) == FALSE

analyzeProject(readdirOk, files, pkg) ==
  IF ~readdirOk THEN UnknownAnalysis("Error occurred while analyzing project files")
  ELSE IF Includes(files, "package.json") THEN
    IF ManifestErrorEscapes(pkg)
      THEN UnknownAnalysis("Error occurred while analyzing project files")
    ELSE
    LET pm == detectPackageManager(files) IN
    [type |-> "node", installCommand |-> getInstallCommand(pm),
     preInstallCommands |-> <<>>,
     startCommand |-> <<"npm", <<"run", chooseStartScript(pkg)>>>>,
     reason |-> "Node.js project detected (" \o (IF pm = Null THEN "npm" ELSE pm) \o ")",
     packageManager |-> IF pm = Null THEN "npm" ELSE pm,
     shouldRemoveLockfile |-> TRUE]
  ELSE IF Includes(files, "requirements.txt") THEN
    [type |-> "python", installCommand |-> NoCommand, preInstallCommands |-> <<>>,
     startCommand |-> NoCommand, reason |-> "Python project detected via requirements.txt",
     packageManager |-> Null, shouldRemoveLockfile |-> FALSE]
  ELSE IF \E f \in files : IsDockerName(f) THEN
    [type |-> "docker", installCommand |-> NoCommand, preInstallCommands |-> <<>>,
     startCommand |-> NoCommand, reason |-> "Docker project detected via Dockerfile",
     packageManager |-> Null, shouldRemoveLockfile |-> FALSE]
  ELSE IF Includes(files, "index.html") THEN
    [type |-> "static", installCommand |-> NoCommand, preInstallCommands |-> <<>>,
     startCommand |-> <<"npx", <<"--yes", "serve">>>>,
     reason |-> "Static HTML project detected via index.html",
     packageManager |-> Null, shouldRemoveLockfile |-> FALSE]
  ELSE UnknownAnalysis("Could not automatically detect project type")

\* ------------------------------------------------------------------ state
VARIABLES
  instance,            \* the sandbox instance prop is non-null
  template,            \* templateData: name of the project tree supplied
  templateDirty,       \* templateData is a new object since the effect last ran
  forceResetup,        \* the forceResetup prop
  isSetupComplete, isSetupInProgress, setupError, previewUrl, currentStep,
  serverProcessIdRef,
  lastDeps,            \* dependency values when the setup effect last ran
  runs, nextRun,       \* invocations of setupContainer that passed the guard
  fsFiles,             \* root listing of the sandbox filesystem
  pkgJson,             \* content of package.json in the sandbox
  analysis,            \* outcome of a direct call of analyzeProject
  processes, nextId,   \* ProcessManager.processes / nextId
  proc,                \* state of each spawned process object, by id
  lastOp,              \* last ProcessManager call and what it returned
  killedIds,           \* ids of every kill(id) that returned true
  issued,              \* ids returned by register, in call order
  listeners,           \* ProcessManager.listeners, in insertion order
  notified,            \* listener calls made by the last notify(), in order
  unsubscribed,        \* listeners whose unsubscribe function has been called
  activeTerminal, terminalIds, nextIdRef, runningProcesses,
  sessions,            \* each TerminalComponent's shell and processRunning ref
  lastInput,           \* what the latest handler wrote to a shell's input
  requests,            \* each POST request's position in the handler
  cache,               \* keys with a live entry in the LRU cache
  inFlight,            \* the inFlight map: cache key to pending promise
  promises,            \* promises returned by runGeneration, by starting request
  microtasks           \* continuations queued by a settled promise, in order

vars == <<instance, template, templateDirty, forceResetup,
          isSetupComplete, isSetupInProgress, setupError, previewUrl,
          currentStep, serverProcessIdRef, lastDeps, runs, nextRun,
          fsFiles, pkgJson, analysis, processes, nextId, proc, lastOp,
          killedIds,
          issued, listeners, notified, unsubscribed,
          activeTerminal, terminalIds, nextIdRef, runningProcesses,
          sessions, lastInput,
          requests, cache, inFlight, promises, microtasks>>

orchVars == <<isSetupComplete, isSetupInProgress, setupError, previewUrl, currentStep>>
regVars == <<processes, nextId, proc, lastOp, killedIds,
             issued, listeners, notified, unsubscribed>>
subVars == <<listeners, unsubscribed>>
anVars == <<pkgJson, analysis>>
envVars == <<instance, template, forceResetup>>
tabVars == <<activeTerminal, terminalIds, nextIdRef, runningProcesses,
             sessions, lastInput>>
sugVars == <<requests, cache, inFlight, promises, microtasks>>

IdleRun ==
  [pc |-> "idle", attempt |-> 0, outs |-> <<>>, plan |-> UnknownAnalysis(""), lockIdx |-> 0,
   preIdx |-> 0,
   installSpawns |-> 0, instKills |-> 0, startSpawns |-> 0,
   procId |-> NoProc, msgs |-> <<>>]

NotAnalyzed ==
  [done |-> FALSE, readdirOk |-> FALSE, raised |-> FALSE, result |-> UnknownAnalysis("")]

NoOp == [op |-> "none", id |-> 0, ret |-> FALSE]

Deps == <<instance, isSetupComplete, isSetupInProgress>>

\* The component after its first render, given one of the templates.
InitOrch(templates) ==
  /\ instance = FALSE
  /\ template \in templates
  /\ templateDirty = FALSE
  /\ forceResetup = FALSE
  /\ isSetupComplete = FALSE
  /\ isSetupInProgress = FALSE
  /\ setupError = Null
  /\ previewUrl = ""
  /\ currentStep = 0
  /\ serverProcessIdRef = NoProc
  /\ lastDeps = <<>>
  /\ runs = [r \in RunIds |-> IdleRun]
  /\ nextRun = 1

\* The ProcessManager singleton as constructed, with the given listeners
\* already subscribed.
InitReg(subscribed) ==
  /\ processes = <<>>
  /\ nextId = 1
  /\ proc = [p \in ProcIds |-> "none"]
  /\ lastOp = NoOp
  /\ killedIds = {}
  /\ issued = <<>>
  /\ listeners = subscribed
  /\ notified = <<>>
  /\ unsubscribed = {}

\* ---------------------------------------------------------- terminal tabs
\* const MAX_TERMINALS = 3
MAX_TERMINALS == 3

TermIds == 0..MaxTermIds

\* The ETX byte "\x03" written for Ctrl+C.
Interrupt == "^C"

\* What the user types into a terminal: Ctrl+C, or a command line that
\* starts a process in the shell.
InputData == {Interrupt, "npm run dev"}

NoInput == [id |-> 0, data |-> ""]

\* A TerminalComponent as mounted: shellProcess.current = null,
\* processRunning.current = false; hosted: the shell runs a process.
NewSession == [shell |-> "none", processRunning |-> FALSE, hosted |-> FALSE]

\* TerminalTabs as mounted: useState(0), useState([]), useRef(1),
\* useState(new Set()), and the default terminal rendered.
InitTabs ==
  /\ activeTerminal = 0
  /\ terminalIds = <<>>
  /\ nextIdRef = 1
  /\ sessions = [i \in TermIds |-> NewSession]
  /\ runningProcesses = {}
  /\ lastInput = NoInput

\* ------------------------------------------------- code-suggestion route
ReqIds == 1..MaxRequests

CacheKeys == {"k1", "k2"}

NoPromise == 0

NewRequest == [pc |-> "new", key |-> "", awaiting |-> NoPromise, response |-> "none"]

\* Module state of the route as loaded: an empty cache, an empty inFlight
\* map, no request received and no promise created.
InitSuggest ==
  /\ requests = [r \in ReqIds |-> NewRequest]
  /\ cache = {}
  /\ inFlight = [k \in CacheKeys |-> NoPromise]
  /\ promises = [r \in ReqIds |-> [state |-> "none", awaiters |-> <<>>]]
  /\ microtasks = <<>>

\* The page with the preview and the terminal tabs rendered: the mount
\* effect of TerminalTabs has subscribed its listener; the sandbox is empty.
Init ==
  /\ InitOrch(TemplateNames)
  /\ InitTabs
  /\ InitSuggest
  /\ InitReg(<<TabsListener>>)
  /\ fsFiles = {}
  /\ pkgJson = NoManifest
  /\ analysis = NotAnalyzed

\* The registry alone, nobody subscribed yet.
InitRegistry ==
  /\ InitOrch({"node"})
  /\ InitTabs
  /\ InitSuggest
  /\ InitReg(<<>>)
  /\ fsFiles = {}
  /\ pkgJson = NoManifest
  /\ analysis = NotAnalyzed

\* ------------------------------------------------------ process registry
Ids == DOMAIN processes

\* ProcessManager.notify: every listener, in insertion order of the Set,
\* is called with its own copy of the table (new Map(this.processes)).
Notify(table) ==
  [i \in 1..Len(listeners) |-> [listener |-> listeners[i], snapshot |-> table]]

\* register that forgets to advance the counter.
NextIdAfterRegister_Same == nextId

\* this.nextId++ in register.
NextIdAfterRegister == nextId + 1

\* ProcessManager.register: fresh id from nextId, entry stored, listeners
\* notified, id returned.  The process object is identified with the id it
\* is registered under.
RegisterEntry(port) ==
  LET table == [i \in Ids \cup {nextId} |->
                  IF i = nextId THEN [id |-> nextId, port |-> port]
                  ELSE processes[i]]
  IN /\ processes' = table
     /\ nextId' = NextIdAfterRegister
     /\ proc' = [proc EXCEPT ![nextId] = "running"]
     /\ issued' = Append(issued, nextId)
     /\ notified' = Notify(table)

Without(ids) == [i \in Ids \ ids |-> processes[i]]

\* unregister that notifies but leaves the entry in the table.
UnregisterEntry_KeepsEntry(id) ==
  /\ processes' = processes
  /\ notified' = Notify(processes)
  /\ UNCHANGED <<nextId, issued>>

\* ProcessManager.unregister: delete without calling process.kill(), then
\* notify (also when the id was not in the table).
UnregisterEntry(id) ==
  /\ processes' = Without({id})
  /\ notified' = Notify(Without({id}))
  /\ UNCHANGED <<nextId, issued>>

\* Effect of process.kill() on the process objects: a call that returns
\* makes a running process terminate (its exit promise is still to
\* resolve); a call that throws leaves the process as it was.
KillProcesses(ids, threw) ==
  [p \in ProcIds |->
     IF p \in (ids \ threw) /\ proc[p] = "running" THEN "killed" ELSE proc[p]]

\* kill(id) without the try/catch: a throwing process.kill() leaves before
\* the delete.
AfterKill_NoCatch(id, throws) == IF throws THEN processes ELSE Without({id})

\* Entries left by kill(id): the try/catch swallows a throwing
\* process.kill(), so the delete is reached either way.
AfterKill(id, throws) == Without({id})

\* ProcessManager.kill(id); throws: whether info.process.kill() throws.
KillEntry(id, throws) ==
  IF id \in Ids
    THEN /\ processes' = AfterKill(id, throws)
         /\ proc' = KillProcesses({id}, IF throws THEN {id} ELSE {})
         /\ notified' = Notify(AfterKill(id, throws))
         /\ lastOp' = [op |-> "kill", id |-> id, ret |-> TRUE]
         /\ killedIds' = killedIds \cup {id}
    ELSE /\ throws = FALSE
         /\ lastOp' = [op |-> "kill", id |-> id, ret |-> FALSE]
         /\ UNCHANGED <<processes, proc, killedIds, notified>>

\* killAll() without the try/catch: the first throwing process.kill()
\* leaves the method before the clear.
AfterKillAll_NoCatch(threw) == IF threw # {} THEN processes ELSE <<>>

\* Entries left by killAll(): this.processes.clear() is reached whatever
\* the kill() calls did.
AfterKillAll(threw) == <<>>

\* ProcessManager.killAll(): kill() on every tracked process, then clear,
\* then one notify.  threw: the processes whose kill() throws.
KillAllEntries(threw) ==
  /\ processes' = AfterKillAll(threw)
  /\ proc' = KillProcesses(Ids, threw)
  /\ notified' = Notify(AfterKillAll(threw))

PortMatches(port) == {i \in Ids : processes[i].port = port}

\* killByPort that stops at the first matching entry.
AfterKillByPort_FirstOnly(port) ==
  IF PortMatches(port) = {} THEN processes
  ELSE Without({CHOOSE i \in PortMatches(port) : \A j \in PortMatches(port) : i <= j})

\* Entries left by killByPort(port): every entry whose port === port is
\* deleted while the Map is iterated.
AfterKillByPort(port) == Without(PortMatches(port))

\* ProcessManager.killByPort(port): notify only when an entry matched.
KillByPortEntries(port, threw) ==
  /\ processes' = AfterKillByPort(port)
  /\ proc' = KillProcesses(PortMatches(port), threw)
  /\ notified' = IF PortMatches(port) # {} THEN Notify(AfterKillByPort(port))
                                            ELSE notified

Range(seq) == {seq[i] : i \in 1..Len(seq)}

RemoveListener(l) ==
  LET Keep(x) == x # l IN SelectSeq(listeners, Keep)

\* An unsubscribe function that does nothing.
AfterUnsubscribe_Keeps(l) == listeners

\* this.listeners.delete(listener) in the function subscribe returns.
AfterUnsubscribe(l) == RemoveListener(l)

\* this.listeners.add(listener): a Set keeps the first insertion of a value.
AfterSubscribe(l) == IF l \in Range(listeners) THEN listeners ELSE Append(listeners, l)

\* A snapshot that is the table itself: clearing it clears the table.
TableAfterSnapshotClear_Aliased == <<>>

\* The table after a listener cleared the Map it was handed: the Map is a
\* copy, the table is untouched.
TableAfterSnapshotClear == processes

\* ----------------------------------------------------------- orchestrator
Log(rec, m) == [rec EXCEPT !.msgs = Append(@, m)]

AttemptMsg(n) ==
  CASE n = 1 -> "Installing dependencies (attempt 1/2)"
    [] n = 2 -> "Installing dependencies (attempt 2/2)"
    [] OTHER -> "Installing dependencies (attempt 3/2)"

TimeoutMessage == "Process timed out after 120s"
SpawnMessage == "spawn failed"
ExitMessage == "Install exited with code 1"

\* Entry guard of setupContainer.
EntryGuard == instance /\ ~isSetupComplete /\ ~isSetupInProgress

\* The setup effect runs after a render in which one of its dependencies
\* changed, and calls setupContainer with the values of that render.
SetupEffect ==
  /\ lastDeps # Deps \/ templateDirty
  /\ lastDeps' = Deps
  /\ templateDirty' = FALSE
  /\ IF EntryGuard
       THEN /\ nextRun <= MaxRuns
            /\ isSetupInProgress' = TRUE
            /\ setupError' = Null
            /\ runs' = [runs EXCEPT ![nextRun] = [IdleRun EXCEPT !.pc = "readFile"]]
            /\ nextRun' = nextRun + 1
            /\ UNCHANGED <<isSetupComplete, previewUrl, currentStep>>
       ELSE UNCHANGED <<isSetupInProgress, setupError, runs, nextRun,
                        isSetupComplete, previewUrl, currentStep>>
  /\ UNCHANGED <<serverProcessIdRef, fsFiles>>
  /\ UNCHANGED regVars
  /\ UNCHANGED envVars
  /\ UNCHANGED anVars
  /\ UNCHANGED <<tabVars, sugVars>>

\* setupContainer returns: the invocation's locals are gone; what outlives
\* it is the start process it spawned and the id its exit handler holds.
Returned(rec, pc) == [IdleRun EXCEPT !.pc = pc, !.procId = rec.procId]

\* A catch block that resets every flag and the preview URL.
Catch_ResetsAll(r, rec, msg) ==
  /\ runs' = [runs EXCEPT ![r] = Returned(rec, "failed")]
  /\ setupError' = msg
  /\ isSetupInProgress' = FALSE
  /\ isSetupComplete' = FALSE
  /\ previewUrl' = ""

\* catch (err) of setupContainer.
Catch(r, rec, msg) ==
  /\ runs' = [runs EXCEPT ![r] = Returned(rec, "failed")]
  /\ setupError' = msg
  /\ isSetupInProgress' = FALSE
  /\ UNCHANGED <<isSetupComplete, previewUrl>>

\* Step 5 whose no-start branch forgets setIsSetupInProgress(false).
Starting_KeepsInProgress(r, rec) ==
  /\ currentStep' = 5
  /\ IF rec.plan.startCommand # NoCommand
       THEN /\ runs' = [runs EXCEPT ![r] = [Log(rec, "Starting") EXCEPT !.pc = "startSpawn"]]
            /\ UNCHANGED <<isSetupComplete, isSetupInProgress>>
       ELSE /\ runs' = [runs EXCEPT ![r] = Returned(rec, "done")]
            /\ isSetupComplete' = TRUE
            /\ UNCHANGED isSetupInProgress
  /\ UNCHANGED <<setupError, previewUrl>>

\* Step 5 that spawns without testing analysis.startCommand.
Starting_AlwaysSpawns(r, rec) ==
  /\ currentStep' = 5
  /\ runs' = [runs EXCEPT ![r] = [Log(rec, "Starting") EXCEPT !.pc = "startSpawn"]]
  /\ UNCHANGED <<isSetupComplete, isSetupInProgress, setupError, previewUrl>>

\* Step 5: spawn the start command, or mark the bootstrap ready at once.
Starting(r, rec) ==
  /\ currentStep' = 5
  /\ IF rec.plan.startCommand # NoCommand
       THEN /\ runs' = [runs EXCEPT ![r] = [Log(rec, "Starting") EXCEPT !.pc = "startSpawn"]]
            /\ UNCHANGED <<isSetupComplete, isSetupInProgress>>
       ELSE /\ runs' = [runs EXCEPT ![r] = Returned(rec, "done")]
            /\ isSetupComplete' = TRUE
            /\ isSetupInProgress' = FALSE
  /\ UNCHANGED <<setupError, previewUrl>>

\* await instance.fs.readFile('package.json') returns or throws (both
\* continue); then step 1 transforms templateData, which may throw on a
\* malformed tree, and step 2 calls mount.
ReadFileDone(r, transformOk) ==
  /\ runs[r].pc = "readFile"
  /\ IF transformOk
       THEN /\ runs' = [runs EXCEPT ![r] = [Log(@, "Mounting files") EXCEPT !.pc = "mount"]]
            /\ currentStep' = 2
            /\ UNCHANGED <<isSetupComplete, isSetupInProgress, setupError, previewUrl>>
       ELSE /\ Catch(r, runs[r], "transform failed")
            /\ currentStep' = 1
  /\ UNCHANGED <<serverProcessIdRef, lastDeps, nextRun, fsFiles>>
  /\ UNCHANGED regVars
  /\ UNCHANGED <<envVars, templateDirty>>
  /\ UNCHANGED anVars
  /\ UNCHANGED <<tabVars, sugVars>>

\* package.json after the template's tree was written over the sandbox.
Mounted(t) ==
  IF "package.json" \in Templates[t].files THEN Templates[t].pkg ELSE pkgJson

\* mount called without await: a rejection is not seen, the run goes on.
MountDone_Unawaited(r, ok) ==
  /\ runs[r].pc = "mount"
  /\ fsFiles' = IF ok THEN fsFiles \cup Templates[template].files ELSE fsFiles
  /\ pkgJson' = IF ok THEN Mounted(template) ELSE pkgJson
  /\ UNCHANGED analysis
  /\ UNCHANGED <<tabVars, sugVars>>
  /\ runs' = [runs EXCEPT ![r] = [Log(@, "Files mounted") EXCEPT !.pc = "analyze"]]
  /\ currentStep' = 3
  /\ UNCHANGED <<isSetupComplete, isSetupInProgress, setupError, previewUrl>>
  /\ UNCHANGED <<serverProcessIdRef, lastDeps, nextRun>>
  /\ UNCHANGED regVars
  /\ UNCHANGED <<envVars, templateDirty>>

\* await instance.mount(files) resolves or rejects.
MountDone(r, ok) ==
  /\ runs[r].pc = "mount"
  /\ IF ok
       THEN /\ fsFiles' = fsFiles \cup Templates[template].files
            /\ pkgJson' = Mounted(template)
            /\ runs' = [runs EXCEPT ![r] = [Log(@, "Files mounted") EXCEPT !.pc = "analyze"]]
            /\ currentStep' = 3
            /\ UNCHANGED <<isSetupComplete, isSetupInProgress, setupError, previewUrl>>
       ELSE /\ Catch(r, runs[r], "mount failed")
            /\ UNCHANGED <<fsFiles, pkgJson, currentStep>>
  /\ UNCHANGED analysis
  /\ UNCHANGED <<tabVars, sugVars>>
  /\ UNCHANGED <<serverProcessIdRef, lastDeps, nextRun>>
  /\ UNCHANGED regVars
  /\ UNCHANGED <<envVars, templateDirty>>

\* First iteration of the install retry loop.
BeginInstall(rec) ==
  [Log(rec, AttemptMsg(1)) EXCEPT !.pc = "installSpawn", !.attempt = 1]

\* for (const [preCmd, preArgs] of analysis.preInstallCommands): the next
\* command of the list, or the install loop once the list is used up.
NextPreInstall(rec) ==
  IF rec.preIdx < Len(rec.plan.preInstallCommands)
    THEN [Log(rec, "Pre-install") EXCEPT !.pc = "preSpawn", !.preIdx = @ + 1]
    ELSE BeginInstall(rec)

\* await analyzeProject(instance) resolves with the given plan; step 4
\* begins.
PlanReady(r, plan) ==
  /\ runs[r].pc = "analyze"
  /\ LET rec  == [Log(runs[r], "Detected: " \o plan.type) EXCEPT !.plan = plan]
     IN IF plan.installCommand # NoCommand
          THEN /\ currentStep' = 4
               /\ runs' = [runs EXCEPT ![r] =
                    IF plan.shouldRemoveLockfile
                      THEN [rec EXCEPT !.pc = "rmLock", !.lockIdx = 1]
                      ELSE NextPreInstall(rec)]
               /\ UNCHANGED <<isSetupComplete, isSetupInProgress, setupError, previewUrl>>
          ELSE Starting(r, Log(rec, "Skipping install"))
  /\ UNCHANGED <<serverProcessIdRef, lastDeps, nextRun, fsFiles>>
  /\ UNCHANGED regVars
  /\ UNCHANGED <<envVars, templateDirty>>
  /\ UNCHANGED anVars
  /\ UNCHANGED <<tabVars, sugVars>>

\* await instance.fs.rm(lockfile) for the next lockfile of the list; a
\* missing file makes rm throw, which is ignored.
RmLock(r) ==
  /\ runs[r].pc = "rmLock"
  /\ LET f   == lockfiles[runs[r].lockIdx]
         rec == IF f \in fsFiles THEN Log(runs[r], "Removed " \o f) ELSE runs[r]
     IN /\ fsFiles' = fsFiles \ {f}
        /\ runs' = [runs EXCEPT ![r] =
             IF rec.lockIdx < Len(lockfiles)
               THEN [rec EXCEPT !.lockIdx = @ + 1]
               ELSE NextPreInstall(rec)]
  /\ UNCHANGED <<serverProcessIdRef, lastDeps, nextRun>>
  /\ UNCHANGED orchVars
  /\ UNCHANGED regVars
  /\ UNCHANGED <<envVars, templateDirty>>
  /\ UNCHANGED anVars
  /\ UNCHANGED <<tabVars, sugVars>>

\* The plan is the one analyzeProject computes from the sandbox; readdirOk:
\* whether instance.fs.readdir('/') resolves.
AnalyzeDone(r, readdirOk) == PlanReady(r, analyzeProject(readdirOk, fsFiles, pkgJson))

PreInstallFailedMessage == "Pre-install step failed (non-fatal)"

\* A pre-install failure that leaves step 4 without installing.
PreInstallFailed_SkipsInstall(rec) ==
  [Log(rec, PreInstallFailedMessage) EXCEPT !.pc = "startSpawn"]

\* The catch inside the pre-install loop: log, then go on with the loop.
PreInstallFailed(rec) == NextPreInstall(Log(rec, PreInstallFailedMessage))

PreInstallRest ==
  /\ UNCHANGED <<serverProcessIdRef, lastDeps, nextRun, fsFiles>>
  /\ UNCHANGED orchVars
  /\ UNCHANGED regVars
  /\ UNCHANGED <<envVars, templateDirty>>
  /\ UNCHANGED anVars
  /\ UNCHANGED <<tabVars, sugVars>>

\* runProcessWithTimeout for a pre-install command: await inst.spawn; a
\* rejected spawn is caught and logged by the loop body.
PreInstallSpawn(r, ok) ==
  /\ runs[r].pc = "preSpawn"
  /\ runs' = [runs EXCEPT ![r] =
       IF ok THEN [@ EXCEPT !.pc = "preWait"]
       ELSE PreInstallFailed(@)]
  /\ PreInstallRest

\* proc.exit wins the race: the exit code of a pre-install command is not
\* looked at.
PreInstallExit(r, exitCode) ==
  /\ runs[r].pc = "preWait"
  /\ runs' = [runs EXCEPT ![r] = NextPreInstall(@)]
  /\ PreInstallRest

\* The 30 s timer fires first: proc.kill(), reject, caught and logged.
PreInstallTimeout(r) ==
  /\ runs[r].pc = "preWait"
  /\ runs' = [runs EXCEPT ![r] =
       PreInstallFailed([@ EXCEPT !.instKills = @ + 1])]
  /\ PreInstallRest

\* A retry loop that throws once the attempts are used up.
InstallFailed_Throws(r, rec) ==
  IF rec.attempt < MAX_RETRIES
    THEN /\ runs' = [runs EXCEPT ![r] = [Log(rec, "Retrying in 1 second") EXCEPT !.pc = "installDelay"]]
         /\ UNCHANGED orchVars
    ELSE /\ Catch(r, rec, "install failed")
         /\ UNCHANGED currentStep

\* An install attempt ended without exit code 0: retry after one second
\* while attempts remain, else warn and go on to step 5.
InstallFailed(r, rec) ==
  IF rec.attempt < MAX_RETRIES
    THEN /\ runs' = [runs EXCEPT ![r] = [Log(rec, "Retrying in 1 second") EXCEPT !.pc = "installDelay"]]
         /\ UNCHANGED orchVars
    ELSE Starting(r, Log(rec, "Dependencies may not have installed correctly"))

\* runProcessWithTimeout: await inst.spawn(cmd, args, {env}).
InstallSpawn(r, ok) ==
  /\ runs[r].pc = "installSpawn"
  /\ LET rec == [runs[r] EXCEPT !.installSpawns = @ + 1]
     IN IF ok
          THEN /\ runs' = [runs EXCEPT ![r] = [rec EXCEPT !.pc = "installWait"]]
               /\ UNCHANGED orchVars
          ELSE InstallFailed(r, [Log(rec, "timer: " \o SpawnMessage)
                                   EXCEPT !.outs = Append(@, "spawnfail")])
  /\ UNCHANGED <<serverProcessIdRef, lastDeps, nextRun, fsFiles>>
  /\ UNCHANGED regVars
  /\ UNCHANGED <<envVars, templateDirty>>
  /\ UNCHANGED anVars
  /\ UNCHANGED <<tabVars, sugVars>>

\* proc.exit wins the race with exit code 0 or 1.
InstallExit(r, exitCode) ==
  /\ runs[r].pc = "installWait"
  /\ IF exitCode = 0
       THEN Starting(r, [Log(runs[r], "Dependencies installed successfully")
                           EXCEPT !.outs = Append(@, "ok")])
       ELSE InstallFailed(r, [Log(runs[r], ExitMessage)
                                EXCEPT !.outs = Append(@, "exit")])
  /\ UNCHANGED <<serverProcessIdRef, lastDeps, nextRun, fsFiles>>
  /\ UNCHANGED regVars
  /\ UNCHANGED <<envVars, templateDirty>>
  /\ UNCHANGED anVars
  /\ UNCHANGED <<tabVars, sugVars>>

\* A timer callback that rejects without calling proc.kill().
TimedOut_NoKill(rec) ==
  [Log(rec, "timer: " \o TimeoutMessage) EXCEPT !.outs = Append(@, "timeout")]

\* The timer of runProcessWithTimeout fires first: proc.kill(), reject.
TimedOut(rec) ==
  [Log(rec, "timer: " \o TimeoutMessage)
     EXCEPT !.outs = Append(@, "timeout"), !.instKills = @ + 1]

InstallTimeout(r) ==
  /\ runs[r].pc = "installWait"
  /\ InstallFailed(r, TimedOut(runs[r]))
  /\ UNCHANGED <<serverProcessIdRef, lastDeps, nextRun, fsFiles>>
  /\ UNCHANGED regVars
  /\ UNCHANGED <<envVars, templateDirty>>
  /\ UNCHANGED anVars
  /\ UNCHANGED <<tabVars, sugVars>>

\* The one-second pause between attempts is over: next loop iteration.
InstallDelayDone(r) ==
  /\ runs[r].pc = "installDelay"
  /\ runs' = [runs EXCEPT ![r] =
       [Log(@, AttemptMsg(@.attempt + 1)) EXCEPT !.pc = "installSpawn", !.attempt = @ + 1]]
  /\ UNCHANGED <<serverProcessIdRef, lastDeps, nextRun, fsFiles>>
  /\ UNCHANGED orchVars
  /\ UNCHANGED regVars
  /\ UNCHANGED <<envVars, templateDirty>>
  /\ UNCHANGED anVars
  /\ UNCHANGED <<tabVars, sugVars>>

\* await instance.spawn(startCommand) resolves (process registered with the
\* process manager, exit handler attached) or rejects (catch).
StartSpawn(r, ok) ==
  /\ runs[r].pc = "startSpawn"
  /\ LET rec == [runs[r] EXCEPT !.startSpawns = @ + 1]
     IN IF ok
          THEN /\ RegisterEntry(NoPort)
               /\ UNCHANGED <<lastOp, killedIds>>
               /\ UNCHANGED subVars
               /\ serverProcessIdRef' = nextId
               /\ runs' = [runs EXCEPT ![r] = Returned([rec EXCEPT !.procId = nextId], "done")]
               /\ UNCHANGED orchVars
          ELSE /\ Catch(r, rec, SpawnMessage)
               /\ UNCHANGED currentStep
               /\ UNCHANGED serverProcessIdRef
               /\ UNCHANGED regVars
  /\ UNCHANGED <<lastDeps, nextRun, fsFiles>>
  /\ UNCHANGED <<envVars, templateDirty>>
  /\ UNCHANGED anVars
  /\ UNCHANGED <<tabVars, sugVars>>

\* An exit handler that takes the preview back to not-started.
ExitHandlerState_Resets ==
  /\ isSetupComplete' = FALSE
  /\ previewUrl' = ""
  /\ UNCHANGED <<isSetupInProgress, setupError, currentStep>>

\* The exit handler of the start process sets no React state.
ExitHandlerState == UNCHANGED orchVars

\* startProcess.exit resolves -- the process exited on its own
\* ("exited") or after a kill() call ("terminated") -- and the handler
\* unregisters the process and clears serverProcessIdRef.
StartExit(r) ==
  /\ runs[r].procId # NoProc
  /\ proc[runs[r].procId] \in {"running", "killed"}
  /\ proc' = [proc EXCEPT ![runs[r].procId] =
                 IF @ = "killed" THEN "terminated" ELSE "exited"]
  /\ UnregisterEntry(runs[r].procId)
  /\ UNCHANGED <<lastOp, killedIds>>
  /\ UNCHANGED subVars
  /\ serverProcessIdRef' = NoProc
  /\ UNCHANGED <<runs, lastDeps, nextRun, fsFiles>>
  /\ ExitHandlerState
  /\ UNCHANGED <<envVars, templateDirty>>
  /\ UNCHANGED anVars
  /\ UNCHANGED <<tabVars, sugVars>>

\* instance.on("server-ready", (port, url) => ...)
ServerReady(url) ==
  /\ instance
  /\ previewUrl' = url
  /\ isSetupComplete' = TRUE
  /\ isSetupInProgress' = FALSE
  /\ UNCHANGED <<setupError, currentStep, serverProcessIdRef, lastDeps, runs,
                 nextRun, fsFiles, instance, template, templateDirty,
                 forceResetup>>
  /\ UNCHANGED regVars
  /\ UNCHANGED anVars
  /\ UNCHANGED <<tabVars, sugVars>>

\* The parent raises the forceResetup prop; the reset effect runs.
ForceReset ==
  /\ ~forceResetup
  /\ forceResetup' = TRUE
  /\ isSetupComplete' = FALSE
  /\ isSetupInProgress' = FALSE
  /\ previewUrl' = ""
  /\ currentStep' = 0
  /\ UNCHANGED <<setupError, serverProcessIdRef, lastDeps, runs, nextRun,
                 fsFiles, instance, template, templateDirty>>
  /\ UNCHANGED regVars
  /\ UNCHANGED anVars
  /\ UNCHANGED <<tabVars, sugVars>>

\* The parent lowers the prop again; the reset effect runs and does nothing.
ForceClear ==
  /\ forceResetup
  /\ forceResetup' = FALSE
  /\ UNCHANGED <<serverProcessIdRef, lastDeps, runs, nextRun,
                 fsFiles, instance, template, templateDirty>>
  /\ UNCHANGED orchVars
  /\ UNCHANGED regVars
  /\ UNCHANGED anVars
  /\ UNCHANGED <<tabVars, sugVars>>

\* onClick of the Retry button, rendered only while an error is shown.
Retry ==
  /\ setupError # Null
  /\ setupError' = Null
  /\ isSetupComplete' = FALSE
  /\ isSetupInProgress' = FALSE
  /\ currentStep' = 0
  /\ UNCHANGED <<previewUrl, serverProcessIdRef, lastDeps, runs, nextRun, fsFiles>>
  /\ UNCHANGED regVars
  /\ UNCHANGED <<envVars, templateDirty>>
  /\ UNCHANGED anVars
  /\ UNCHANGED <<tabVars, sugVars>>

\* The sandbox instance becomes available (prop turns non-null).
InstanceReady ==
  /\ ~instance
  /\ instance' = TRUE
  /\ UNCHANGED <<template, templateDirty, forceResetup,
                 serverProcessIdRef, lastDeps, runs, nextRun, fsFiles>>
  /\ UNCHANGED orchVars
  /\ UNCHANGED regVars
  /\ UNCHANGED anVars
  /\ UNCHANGED <<tabVars, sugVars>>

\* The parent passes a new templateData object.
TemplateChange ==
  /\ templateDirty' = TRUE
  /\ UNCHANGED <<instance, template, forceResetup,
                 serverProcessIdRef, lastDeps, runs, nextRun, fsFiles>>
  /\ UNCHANGED orchVars
  /\ UNCHANGED regVars
  /\ UNCHANGED anVars
  /\ UNCHANGED <<tabVars, sugVars>>

\* ---------------------------------------------------------- terminal tabs
\* The terminals TerminalTabs renders: the default one and terminalIds.
Rendered(id) == id = 0 \/ id \in Range(terminalIds)

\* shellProcess.current is set: the jsh shell was spawned and not killed.
Connected(id) == sessions[id].shell = "live"

\* A session after an interrupt was written to its shell: the flag is
\* cleared; stops: whether the hosted process really ends.
Interrupted(s, stops) ==
  [s EXCEPT !.processRunning = FALSE, !.hosted = IF stops THEN FALSE ELSE @]

\* killProcess that writes Ctrl+C and leaves the flag as it is.
AfterInterrupt_KeepsFlag(id, stops) ==
  [sessions[id] EXCEPT !.hosted = IF stops THEN FALSE ELSE @]

\* processRunning after killProcess() or a typed Ctrl+C on a connected
\* shell: set to false, whatever the shell does.
AfterInterrupt(id, stops) == Interrupted(sessions[id], stops)

\* handleProcessStateChange(terminalId, isRunning)
handleProcessStateChange(set, terminalId, isRunning) ==
  IF isRunning THEN set \cup {terminalId} ELSE set \ {terminalId}

\* TerminalComponent.killProcess: with a shell, write "\x03" to its input
\* and setProcessRunning(false), which notifies only on a change.
killProcess(id, stops) ==
  IF Connected(id)
    THEN /\ lastInput' = [id |-> id, data |-> Interrupt]
         /\ sessions' = [sessions EXCEPT ![id] = AfterInterrupt(id, stops)]
         /\ runningProcesses' =
              IF sessions[id].processRunning # AfterInterrupt(id, stops).processRunning
                THEN handleProcessStateChange(runningProcesses, id, FALSE)
                ELSE runningProcesses
    ELSE /\ ~stops
         /\ lastInput' = NoInput
         /\ UNCHANGED <<sessions, runningProcesses>>

\* The add button without the length check.
CanAddTerminal_NoCap == TRUE

\* terminalIds.length < MAX_TERMINALS
CanAddTerminal == Len(terminalIds) < MAX_TERMINALS

\* TerminalTabs.addTerminal: newId = nextIdRef.current++, appended and made
\* active; the new TerminalComponent mounts.
AddTerminal ==
  /\ nextIdRef <= MaxTermIds
  /\ IF CanAddTerminal
       THEN /\ terminalIds' = Append(terminalIds, nextIdRef)
            /\ nextIdRef' = nextIdRef + 1
            /\ activeTerminal' = nextIdRef
            /\ sessions' = [sessions EXCEPT ![nextIdRef] = NewSession]
       ELSE UNCHANGED <<terminalIds, nextIdRef, activeTerminal, sessions>>
  /\ lastInput' = NoInput
  /\ UNCHANGED runningProcesses

\* closeTerminal that discards the handle before asking it to kill.
WritesInterruptOnClose_AfterDiscard(id) == FALSE

\* closeTerminal: ref?.isProcessRunning() then ref.killProcess(), which
\* writes only to a connected shell.
WritesInterruptOnClose(id) == sessions[id].processRunning /\ Connected(id)

\* The unmount cleanup of a TerminalComponent: shellProcess.kill() when
\* there is a shell; the processes it hosts go with it.
Unmounted(s) ==
  [s EXCEPT !.shell = IF @ = "live" THEN "killed" ELSE @, !.hosted = FALSE]

\* TerminalTabs.closeTerminal(id), from a tab's close button; id 0 returns
\* at once.
CloseTerminal(id) ==
  /\ Rendered(id)
  /\ lastInput' = IF id # 0 /\ WritesInterruptOnClose(id)
                    THEN [id |-> id, data |-> Interrupt] ELSE NoInput
  /\ IF id = 0
       THEN UNCHANGED <<activeTerminal, terminalIds, nextIdRef, runningProcesses,
                        sessions>>
     ELSE
       /\ sessions' = [sessions EXCEPT ![id] =
            Unmounted(IF WritesInterruptOnClose(id)
                        THEN AfterInterrupt(id, TRUE) ELSE sessions[id])]
       /\ runningProcesses' = runningProcesses \ {id}
       /\ terminalIds' = SelectSeq(terminalIds, LAMBDA tid : tid # id)
       /\ activeTerminal' = IF activeTerminal = id THEN 0 ELSE activeTerminal
       /\ UNCHANGED nextIdRef

\* onClick of a tab: setActiveTerminal(id)
SelectTerminal(id) ==
  /\ Rendered(id)
  /\ activeTerminal' = id
  /\ lastInput' = NoInput
  /\ UNCHANGED <<terminalIds, nextIdRef, runningProcesses, sessions>>

\* connect(): the jsh shell is spawned and its output piped to the scanner.
Connect(id) ==
  /\ instance
  /\ Rendered(id)
  /\ sessions[id].shell = "none"
  /\ sessions' = [sessions EXCEPT ![id].shell = "live"]
  /\ lastInput' = NoInput
  /\ UNCHANGED <<activeTerminal, terminalIds, nextIdRef, runningProcesses>>

\* The output sink's write(data); matches: some SERVER_RUNNING_PATTERNS
\* entry matches the chunk.  The sink stays attached to the stream of a
\* shell killed at unmount, whose pending chunks arrive afterwards.
OutputChunk(id, matches) ==
  /\ sessions[id].shell \in {"live", "killed"}
  /\ IF matches
       THEN /\ sessions' = [sessions EXCEPT ![id].processRunning = TRUE]
            /\ runningProcesses' = handleProcessStateChange(runningProcesses, id, TRUE)
       ELSE UNCHANGED <<sessions, runningProcesses>>
  /\ lastInput' = NoInput
  /\ UNCHANGED <<activeTerminal, terminalIds, nextIdRef>>

\* terminal.onData(data), for keys typed into the visible terminal: piped
\* to the shell's input; Ctrl+C clears the flag and notifies.  stops:
\* whether the hosted process ends on Ctrl+C.
UserInput(id, data, stops) ==
  /\ id = activeTerminal
  /\ Rendered(id)
  /\ IF Connected(id)
       THEN /\ lastInput' = [id |-> id, data |-> data]
            /\ IF data = Interrupt
                 THEN /\ sessions' = [sessions EXCEPT ![id] = AfterInterrupt(id, stops)]
                      /\ runningProcesses' =
                           handleProcessStateChange(runningProcesses, id, FALSE)
                 ELSE /\ ~stops
                      /\ sessions' = [sessions EXCEPT ![id].hosted = TRUE]
                      /\ UNCHANGED runningProcesses
       ELSE /\ ~stops
            /\ lastInput' = NoInput
            /\ UNCHANGED <<sessions, runningProcesses>>
  /\ UNCHANGED <<activeTerminal, terminalIds, nextIdRef>>

\* The process a shell hosts ends by itself; no code observes it.
HostedProcessExit(id) ==
  /\ Connected(id)
  /\ sessions[id].hosted
  /\ sessions' = [sessions EXCEPT ![id].hosted = FALSE]
  /\ lastInput' = NoInput
  /\ UNCHANGED <<activeTerminal, terminalIds, nextIdRef, runningProcesses>>

\* TerminalTabs.killActiveProcess, from the stop button (enabled while the
\* active terminal is marked running or the manager tracks a process):
\* killAll() when the manager tracks any process, then killProcess() on the
\* active terminal.  threw: the tracked processes whose kill() throws.
KillActiveProcess(threw) ==
  /\ activeTerminal \in runningProcesses \/ Cardinality(Ids) > 0
  /\ threw \subseteq Ids
  /\ IF Cardinality(Ids) > 0
       THEN KillAllEntries(threw)
       ELSE UNCHANGED <<processes, proc, notified>>
  /\ IF Rendered(activeTerminal)
       THEN \E stops \in BOOLEAN : killProcess(activeTerminal, stops)
       ELSE /\ lastInput' = NoInput
            /\ UNCHANGED <<sessions, runningProcesses>>
  /\ UNCHANGED <<activeTerminal, terminalIds, nextIdRef>>
  /\ UNCHANGED <<nextId, issued, lastOp, killedIds, runs, nextRun, lastDeps,
                 fsFiles, serverProcessIdRef>>
  /\ UNCHANGED subVars
  /\ UNCHANGED orchVars
  /\ UNCHANGED <<envVars, templateDirty>>
  /\ UNCHANGED anVars
  /\ UNCHANGED sugVars

\* Calls of the registry's public API by an arbitrary component.
RestUnchanged ==
  /\ UNCHANGED <<runs, nextRun, lastDeps, fsFiles, serverProcessIdRef>>
  /\ UNCHANGED orchVars
  /\ UNCHANGED <<envVars, templateDirty>>
  /\ UNCHANGED anVars
  /\ UNCHANGED <<tabVars, sugVars>>

ApiRegister(port) ==
  /\ nextId <= MaxProcs
  /\ RegisterEntry(port)
  /\ lastOp' = [op |-> "register", id |-> nextId, ret |-> TRUE]
  /\ UNCHANGED killedIds
  /\ UNCHANGED subVars
  /\ RestUnchanged

ApiKill(id, throws) ==
  /\ KillEntry(id, throws)
  /\ UNCHANGED <<nextId, issued>>
  /\ UNCHANGED subVars
  /\ RestUnchanged

ApiKillByPort(port, threw) ==
  /\ threw \subseteq PortMatches(port)
  /\ KillByPortEntries(port, threw)
  /\ lastOp' = [op |-> "killByPort", id |-> port, ret |-> PortMatches(port) # {}]
  /\ UNCHANGED <<nextId, issued, killedIds>>
  /\ UNCHANGED subVars
  /\ RestUnchanged

ApiKillAll(threw) ==
  /\ threw \subseteq Ids
  /\ KillAllEntries(threw)
  /\ lastOp' = [op |-> "killAll", id |-> 0, ret |-> TRUE]
  /\ UNCHANGED <<nextId, issued, killedIds>>
  /\ UNCHANGED subVars
  /\ RestUnchanged

ApiUnregister(id) ==
  /\ UnregisterEntry(id)
  /\ proc' = proc
  /\ lastOp' = [op |-> "unregister", id |-> id, ret |-> TRUE]
  /\ UNCHANGED killedIds
  /\ UNCHANGED subVars
  /\ RestUnchanged

\* subscribe(listener): the listener is added; the caller keeps the
\* unsubscribe function.
ApiSubscribe(l) ==
  /\ listeners' = AfterSubscribe(l)
  /\ unsubscribed' = unsubscribed \ {l}
  /\ UNCHANGED <<processes, nextId, proc, lastOp, killedIds, issued, notified>>
  /\ RestUnchanged

\* The unsubscribe function of listener l is called (the effect cleanup of
\* TerminalTabs, or any other subscriber).
ApiUnsubscribe(l) ==
  /\ l \in Range(listeners) \cup unsubscribed
  /\ listeners' = AfterUnsubscribe(l)
  /\ unsubscribed' = unsubscribed \cup {l}
  /\ UNCHANGED <<processes, nextId, proc, lastOp, killedIds, issued, notified>>
  /\ RestUnchanged

\* The listener of the i-th call of the last notify() clears the snapshot
\* Map it received.
SnapshotClear(i) ==
  /\ i \in 1..Len(notified)
  /\ notified[i].snapshot # <<>>
  /\ notified' = [notified EXCEPT ![i].snapshot = <<>>]
  /\ processes' = TableAfterSnapshotClear
  /\ UNCHANGED <<nextId, proc, lastOp, killedIds, issued>>
  /\ UNCHANGED subVars
  /\ RestUnchanged

RunStep(r) ==
  \/ \E b \in BOOLEAN : ReadFileDone(r, b)
  \/ \E b \in BOOLEAN : MountDone(r, b)
  \/ \E b \in BOOLEAN : AnalyzeDone(r, b)
  \/ RmLock(r)
  \/ \E b \in BOOLEAN : InstallSpawn(r, b)
  \/ \E c \in {0, 1} : InstallExit(r, c)
  \/ InstallTimeout(r)
  \/ InstallDelayDone(r)
  \/ \E b \in BOOLEAN : StartSpawn(r, b)

Next ==
  \/ InstanceReady
  \/ SetupEffect
  \/ \E r \in RunIds : RunStep(r)
  \/ \E r \in RunIds : StartExit(r)
  \/ \E u \in Urls : ServerReady(u)
  \/ ForceReset
  \/ ForceClear
  \/ Retry
  \/ TemplateChange
  \/ \E t \in SUBSET Ids : KillActiveProcess(t)

Spec == Init /\ [][Next]_vars

\* ------------------------------------- the bootstrap over arbitrary plans
\* analysis.preInstallCommands of 0..MaxPreInstall commands.
PreInstallLists ==
  {[i \in 1..n |-> <<"npx", <<"update-browserslist-db@latest">>>>] :
     n \in 0..MaxPreInstall}

\* ProjectAnalysis values: what analyzeProject returns for a node project
\* with and without a lockfile, a static site and an empty sandbox, with
\* any list of pre-install commands and either value of
\* shouldRemoveLockfile.
Plans ==
  {[base EXCEPT !.preInstallCommands = pre, !.shouldRemoveLockfile = rm] :
     base \in {analyzeProject(TRUE, files, NoManifest) :
                 files \in {{"package.json"}, {"package.json", "yarn.lock"},
                            {"index.html"}, {}}},
     pre \in PreInstallLists, rm \in BOOLEAN}

\* setupContainer run once per effect, the plan of step 3 being any
\* ProjectAnalysis.
NextInstall ==
  \/ InstanceReady
  \/ SetupEffect
  \/ \E r \in RunIds, b \in BOOLEAN : ReadFileDone(r, b)
  \/ \E r \in RunIds, b \in BOOLEAN : MountDone(r, b)
  \/ \E r \in RunIds, plan \in Plans : PlanReady(r, plan)
  \/ \E r \in RunIds : RmLock(r)
  \/ \E r \in RunIds, b \in BOOLEAN : PreInstallSpawn(r, b)
  \/ \E r \in RunIds, c \in {0, 1} : PreInstallExit(r, c)
  \/ \E r \in RunIds : PreInstallTimeout(r)
  \/ \E r \in RunIds, b \in BOOLEAN : InstallSpawn(r, b)
  \/ \E r \in RunIds, c \in {0, 1} : InstallExit(r, c)
  \/ \E r \in RunIds : InstallTimeout(r)
  \/ \E r \in RunIds : InstallDelayDone(r)
  \/ \E r \in RunIds, b \in BOOLEAN : StartSpawn(r, b)

SpecInstall == Init /\ [][NextInstall]_vars

\* ------------------------------------------- the bootstrap left to itself
\* The component without user or parent intervention: the effect, the
\* steps of setupContainer, the exit of the start process and the
\* sandbox's server-ready event.
NextLive ==
  \/ InstanceReady
  \/ SetupEffect
  \/ \E r \in RunIds : RunStep(r)
  \/ \E r \in RunIds : StartExit(r)
  \/ \E u \in Urls : ServerReady(u)

\* Every awaited sandbox call returns, every spawned process exits or is
\* timed out, and React runs the effect after a render; the server-ready
\* event is up to the program started in the sandbox.
Fairness ==
  /\ WF_vars(InstanceReady)
  /\ WF_vars(SetupEffect)
  /\ \A r \in RunIds : WF_vars(RunStep(r))
  /\ \A r \in RunIds : WF_vars(StartExit(r))

SpecLive == Init /\ [][NextLive]_vars /\ Fairness

\* ------------------------------------------------- the analyzer on its own
ScriptNames == {"dev", "start", "preview", "build", "0", "1"}

\* Script declarations of at most n entries with distinct names.
ScriptSeqs(n) ==
  UNION {{sc \in [1..k -> ScriptNames \X BOOLEAN] :
            \A i, j \in 1..k : i # j => sc[i][1] # sc[j][1]} : k \in 0..n}

\* Manifests: unreadable, not valid JSON, without a scripts object, or with
\* one of the script declarations.
Manifests ==
  {Manifest(FALSE, FALSE, FALSE, <<>>), Manifest(TRUE, FALSE, FALSE, <<>>),
   Manifest(TRUE, TRUE, FALSE, <<>>)}
  \cup {Manifest(TRUE, TRUE, TRUE, sc) : sc \in ScriptSeqs(MaxScripts)}

LockfileNames == {lockfiles[i] : i \in 1..Len(lockfiles)}

\* Sandbox contents given to the analyzer: every listing over RootNames,
\* and every manifest with every combination of lockfiles.
AnalyzerInputs ==
  {[files |-> fs, pkg |-> IF "package.json" \in fs THEN m ELSE NoManifest] :
     fs \in SUBSET RootNames, m \in {Manifest(TRUE, FALSE, FALSE, <<>>),
                                      Manifest(TRUE, TRUE, TRUE, <<<<"start", TRUE>>>>)}}
  \cup {[files |-> {"package.json"} \cup ls, pkg |-> m] :
          ls \in SUBSET LockfileNames, m \in Manifests}

InitAnalyzer ==
  /\ InitOrch({"node"})
  /\ InitTabs
  /\ InitSuggest
  /\ InitReg(<<>>)
  /\ \E in \in AnalyzerInputs : fsFiles = in.files /\ pkgJson = in.pkg
  /\ analysis = NotAnalyzed

\* await analyzeProject(instance) on the sandbox as it is; readdirOk: whether
\* instance.fs.readdir('/') resolves.
ApiAnalyze(readdirOk) ==
  /\ ~analysis.done
  /\ analysis' = [done |-> TRUE, readdirOk |-> readdirOk,
                   raised |-> AnalysisRaises(readdirOk, fsFiles, pkgJson),
                   result |-> analyzeProject(readdirOk, fsFiles, pkgJson)]
  /\ UNCHANGED <<fsFiles, pkgJson>>
  /\ UNCHANGED <<tabVars, sugVars>>
  /\ UNCHANGED <<runs, nextRun, lastDeps, serverProcessIdRef>>
  /\ UNCHANGED orchVars
  /\ UNCHANGED regVars
  /\ UNCHANGED <<envVars, templateDirty>>

NextAnalyzer == \E b \in BOOLEAN : ApiAnalyze(b)

SpecAnalyzer == InitAnalyzer /\ [][NextAnalyzer]_vars

\* The registry driven through its public API alone.
NextRegistry ==
  \/ \E port \in Ports \cup {NoPort} : ApiRegister(port)
  \/ \E id \in 1..(MaxProcs + 1), b \in BOOLEAN : ApiKill(id, b)
  \/ \E port \in Ports : \E t \in SUBSET Ids : ApiKillByPort(port, t)
  \/ \E t \in SUBSET Ids : ApiKillAll(t)
  \/ \E id \in 1..(MaxProcs + 1) : ApiUnregister(id)
  \/ \E l \in ListenerIds : ApiSubscribe(l)
  \/ \E l \in ListenerIds : ApiUnsubscribe(l)
  \/ \E i \in 1..Cardinality(ListenerIds) : SnapshotClear(i)

SpecRegistry == InitRegistry /\ [][NextRegistry]_vars

\* -------------------------------------------- terminal tabs on their own
\* The page with one project open and the terminal panel shown.
InitPage ==
  /\ InitOrch({"node"})
  /\ InitTabs
  /\ InitSuggest
  /\ InitReg(<<TabsListener>>)
  /\ fsFiles = {}
  /\ pkgJson = NoManifest
  /\ analysis = NotAnalyzed

TabsRest ==
  /\ UNCHANGED <<runs, nextRun, lastDeps, fsFiles, serverProcessIdRef>>
  /\ UNCHANGED orchVars
  /\ UNCHANGED <<envVars, templateDirty>>
  /\ UNCHANGED anVars
  /\ UNCHANGED regVars
  /\ UNCHANGED sugVars

NextTabs ==
  \/ InstanceReady
  \/ AddTerminal /\ TabsRest
  \/ \E id \in TermIds : CloseTerminal(id) /\ TabsRest
  \/ \E id \in TermIds : SelectTerminal(id) /\ TabsRest
  \/ \E id \in TermIds : Connect(id) /\ TabsRest
  \/ \E id \in TermIds, matches \in BOOLEAN : OutputChunk(id, matches) /\ TabsRest
  \/ \E id \in TermIds, data \in InputData, stops \in BOOLEAN :
       UserInput(id, data, stops) /\ TabsRest
  \/ \E id \in TermIds : HostedProcessExit(id) /\ TabsRest
  \/ KillActiveProcess({})

SpecTabs == InitPage /\ [][NextTabs]_vars

\* ------------------------------------------------- code-suggestion route
\* const promise = runGeneration(...); inFlight.set(cacheKey, promise);
\* the request then awaits its own promise.
StartGeneration(r, k) ==
  /\ promises' = [promises EXCEPT ![r] = [state |-> "pending", awaiters |-> <<r>>]]
  /\ inFlight' = [inFlight EXCEPT ![k] = r]
  /\ requests' = [requests EXCEPT ![r] =
       [pc |-> "awaitOwn", key |-> k, awaiting |-> r, response |-> "none"]]

\* POST up to its first await on a generation: a cache hit answers at once,
\* a promise found in inFlight is awaited, otherwise a generation starts.
Post(r, k) ==
  /\ microtasks = <<>>
  /\ requests[r].pc = "new"
  /\ \A q \in ReqIds : q < r => requests[q].pc # "new"
  /\ IF k \in cache
       THEN /\ requests' = [requests EXCEPT ![r] =
                 [pc |-> "done", key |-> k, awaiting |-> NoPromise, response |-> "cached"]]
            /\ UNCHANGED <<inFlight, promises>>
     ELSE IF inFlight[k] # NoPromise
       THEN /\ requests' = [requests EXCEPT ![r] =
                 [pc |-> "awaitShared", key |-> k, awaiting |-> inFlight[k],
                  response |-> "none"]]
            /\ promises' = [promises EXCEPT ![inFlight[k]].awaiters = Append(@, r)]
            /\ UNCHANGED inFlight
     ELSE StartGeneration(r, k)
  /\ UNCHANGED <<cache, microtasks>>

\* The promise of a runGeneration call settles: it resolves with a
\* suggestion, or rejects (no API key, every model exhausted).  The
\* continuations of the requests awaiting it are queued in await order.
Settle(p, ok) ==
  /\ microtasks = <<>>
  /\ promises[p].state = "pending"
  /\ promises' = [promises EXCEPT ![p].state = IF ok THEN "fulfilled" ELSE "rejected"]
  /\ microtasks' = [i \in 1..Len(promises[p].awaiters) |->
                      [req |-> promises[p].awaiters[i], ok |-> ok]]
  /\ UNCHANGED <<requests, cache, inFlight>>

\* The next queued continuation runs to the handler's next await or return.
\* The owner stores a result in the cache and, in its finally, deletes the
\* key from inFlight; a waiter answers from the shared result or, after a
\* rejection, falls through its catch and starts a generation.
Resume ==
  /\ microtasks # <<>>
  /\ LET r == Head(microtasks).req
         ok == Head(microtasks).ok
         k == requests[r].key
     IN IF requests[r].pc = "awaitOwn"
          THEN /\ cache' = IF ok THEN cache \cup {k} ELSE cache
               /\ requests' = [requests EXCEPT ![r].pc = "done",
                     ![r].response = IF ok THEN "fresh" ELSE "error"]
               /\ inFlight' = [inFlight EXCEPT ![k] = NoPromise]
               /\ UNCHANGED promises
        ELSE IF ok
          THEN /\ requests' = [requests EXCEPT ![r].pc = "done",
                     ![r].response = "cached"]
               /\ UNCHANGED <<cache, inFlight, promises>>
        ELSE /\ StartGeneration(r, k)
             /\ UNCHANGED cache
  /\ microtasks' = Tail(microtasks)

\* A cache entry older than the TTL is dropped by the next get.
CacheExpire(k) ==
  /\ microtasks = <<>>
  /\ k \in cache
  /\ cache' = cache \ {k}
  /\ UNCHANGED <<requests, inFlight, promises, microtasks>>

RouteRest ==
  /\ UNCHANGED <<runs, nextRun, lastDeps, fsFiles, serverProcessIdRef>>
  /\ UNCHANGED orchVars
  /\ UNCHANGED <<envVars, templateDirty>>
  /\ UNCHANGED anVars
  /\ UNCHANGED regVars
  /\ UNCHANGED tabVars

NextSuggest ==
  \/ \E r \in ReqIds, k \in CacheKeys : Post(r, k) /\ RouteRest
  \/ \E p \in ReqIds, ok \in BOOLEAN : Settle(p, ok) /\ RouteRest
  \/ Resume /\ RouteRest
  \/ \E k \in CacheKeys : CacheExpire(k) /\ RouteRest

SpecSuggest == InitRegistry /\ [][NextSuggest]_vars

\* ------------------------------------------------------------ properties
TypeOK ==
  /\ isSetupComplete \in BOOLEAN
  /\ isSetupInProgress \in BOOLEAN
  /\ currentStep \in 0..totalSteps
  /\ nextRun \in 1..(MaxRuns + 1)

\* A run is executing its steps: it passed the entry guard and has neither
\* returned after Starting nor failed.
Executing(r) == runs[r].pc \notin {"idle", "done", "failed"}

Last(seq) == seq[Len(seq)]

\* C1: bootstrap runs never overlap -- at no time are two invocations of
\* setupContainer both executing their steps, whatever the interleaving of
\* server-ready notifications, force-reset, Retry and effect re-execution.
C1_RunsNeverOverlap ==
  \A r1, r2 \in RunIds : r1 # r2 => ~(Executing(r1) /\ Executing(r2))

\* C2: Error is absorbing -- while setupError is set (and the parent has
\* not raised forceResetup) no step begins a new bootstrap run; only Retry,
\* which clears setupError, or a force-reset may lead to one.
C2_ErrorIsAbsorbing ==
  [][(setupError # Null /\ ~forceResetup /\ ~forceResetup')
       => (nextRun' = nextRun /\ ~isSetupInProgress')]_vars

\* C3 (as stated): at most 2 install spawns per run; a second attempt is
\* made exactly when the first ended with a non-zero exit or a timeout; no
\* attempt follows one that exited with code 0.
C3_SecondAttemptOnlyAfterExitOrTimeout ==
  \A r \in RunIds :
    LET R == runs[r] IN
    /\ R.installSpawns <= 2
    /\ R.installSpawns = 2 => (Len(R.outs) >= 1 /\ R.outs[1] \in {"exit", "timeout"})
    /\ (R.pc = "startSpawn" /\ Len(R.outs) >= 1 /\ R.outs[1] \in {"exit", "timeout"})
         => R.installSpawns = 2
    /\ \A i \in 1..Len(R.outs) :
         R.outs[i] = "ok" => (i = Len(R.outs) /\ R.installSpawns = i /\ R.pc = "startSpawn")

\* C3 (amended): at most 2 install spawns per run; a second attempt is made
\* exactly when the first did not end with exit code 0 (non-zero exit,
\* timeout, or the spawn call itself rejecting); no attempt follows one that
\* exited with code 0.
C3_AtMostTwoAttempts ==
  \A r \in RunIds :
    LET R == runs[r] IN
    /\ R.installSpawns <= 2
    /\ R.installSpawns = 2 => (Len(R.outs) >= 1 /\ R.outs[1] # "ok")
    /\ (R.pc = "startSpawn" /\ Len(R.outs) >= 1 /\ R.outs[1] # "ok")
         => R.installSpawns = 2
    /\ \A i \in 1..Len(R.outs) :
         R.outs[i] = "ok" => (i = Len(R.outs) /\ R.installSpawns = i /\ R.pc = "startSpawn")

\* A run whose first attempt failed has finished its second attempt.
C3_Witness ==
  \E r \in RunIds :
    /\ runs[r].installSpawns = 2 /\ Len(runs[r].outs) = 2
    /\ runs[r].outs[1] = "spawnfail" /\ runs[r].outs[2] = "ok"

\* C4: when the install command exits non-zero on both attempts, the step
\* that ends the second attempt leaves the run with exactly two attempts
\* made, at step 5 with the start command being spawned when the plan has
\* one, and sets no error.
C4_TwoFailuresThenStarting ==
  [][\A r \in RunIds :
       (InstallExit(r, 1) /\ runs[r].outs = <<"exit">>)
         => /\ runs[r].installSpawns = 2
            /\ currentStep' = 5
            /\ setupError' = setupError
            /\ IF runs[r].plan.startCommand # NoCommand
                 THEN /\ runs'[r].pc = "startSpawn"
                      /\ runs'[r].outs = <<"exit", "exit">>
                      /\ runs'[r].installSpawns = 2
                      /\ Last(runs'[r].msgs) = "Starting"
                 ELSE runs'[r].pc = "done"]_vars

C4_Witness ==
  \E r \in RunIds : runs[r].outs = <<"exit", "exit">> /\ runs[r].pc = "startSpawn"

\* C5: an install attempt that timed out had its process killed and wrote
\* the timeout message, which differs from the non-zero-exit message; after
\* a timeout of the first attempt the run waits, makes one more attempt, and
\* after that second attempt it is at step 5 having spawned install twice.
C5_TimeoutThenRetryThenStarting ==
  \A r \in RunIds :
    LET R == runs[r] IN
    /\ \A i \in 1..Len(R.outs) :
         R.outs[i] = "timeout" =>
           /\ R.instKills >= 1
           /\ \E j \in 1..Len(R.msgs) : R.msgs[j] = "timer: " \o TimeoutMessage
           /\ "timer: " \o TimeoutMessage # ExitMessage
    /\ (Len(R.outs) >= 1 /\ R.outs[1] = "timeout") =>
         \/ R.pc = "installDelay" /\ R.attempt = 1 /\ Len(R.outs) = 1
         \/ R.pc \in {"installSpawn", "installWait"} /\ R.attempt = 2 /\ Len(R.outs) = 1
         \/ R.pc = "startSpawn" /\ R.installSpawns = 2 /\ Len(R.outs) = 2
    /\ R.instKills = Cardinality({i \in 1..Len(R.outs) : R.outs[i] = "timeout"})

C5_Witness ==
  \E r \in RunIds :
    /\ Len(runs[r].outs) = 2 /\ runs[r].outs[1] = "timeout"
    /\ runs[r].pc = "startSpawn"

\* C6: a server-ready(port, url) notification sets previewUrl to url,
\* isSetupComplete true and isSetupInProgress false at whatever point of a
\* run it arrives, and no later step of a run changes previewUrl or turns
\* isSetupComplete false again.
C6_ServerReadyWins ==
  [][/\ \A u \in Urls :
          ServerReady(u) => (previewUrl' = u /\ isSetupComplete' /\ ~isSetupInProgress')
     /\ \A r \in RunIds :
          RunStep(r) => (previewUrl' = previewUrl /\ (isSetupComplete => isSetupComplete'))]_vars

\* Ready with a URL while a run that began before the notification is
\* still in its install step.
C6_Witness ==
  /\ isSetupComplete /\ ~isSetupInProgress /\ previewUrl \in Urls
  /\ \E r \in RunIds : runs[r].pc = "installWait" /\ runs[r].attempt = 2

C8_NoStartCommandEndsReady ==
  /\ [](\A r \in RunIds : runs[r].pc = "startSpawn" => runs[r].plan.startCommand # NoCommand)
  /\ [][\A r \in RunIds, b \in BOOLEAN :
          (AnalyzeDone(r, b)
             /\ analyzeProject(b, fsFiles, pkgJson).startCommand = NoCommand)
            => /\ runs'[r].pc = "done"
               /\ runs'[r].procId = NoProc
               /\ isSetupComplete' /\ ~isSetupInProgress'
               /\ UNCHANGED <<processes, nextId, proc, serverProcessIdRef>>]_vars

C8_Witness ==
  /\ isSetupComplete /\ ~isSetupInProgress /\ previewUrl = ""
  /\ nextId = 1
  /\ \E r \in RunIds : runs[r].pc = "done" /\ runs[r].procId = NoProc

\* C9: a run whose transform or mount fails has executed none of the later
\* steps, ends there with the error message in setupError and
\* isSetupInProgress false, touches neither the sandbox files nor the
\* registry, and takes no further step.
C9_MountFailureEndsRun ==
  /\ [](\A r \in RunIds :
          runs[r].pc \in {"readFile", "mount"} =>
            runs[r] = [IdleRun EXCEPT !.pc = runs[r].pc, !.msgs = runs[r].msgs])
  /\ [][\A r \in RunIds :
          /\ (ReadFileDone(r, FALSE) \/ MountDone(r, FALSE)) =>
               /\ runs'[r] = [IdleRun EXCEPT !.pc = "failed"]
               /\ setupError' = (IF runs[r].pc = "mount" THEN "mount failed"
                                                          ELSE "transform failed")
               /\ ~isSetupInProgress'
               /\ UNCHANGED <<fsFiles, processes, nextId, proc>>
          /\ runs[r].pc = "failed" => runs'[r] = runs[r]]_vars

C9_Witness ==
  /\ setupError = "mount failed" /\ ~isSetupInProgress
  /\ \E r \in RunIds : runs[r].pc = "failed"

KilledSet == killedIds

\* C10: kill(id) of a registered id returns true and removes exactly that
\* entry, also when process.kill() throws; kill of an id that is not (or no
\* longer) registered returns false and changes nothing; an id once killed
\* is never in the table again.
C10_KillRemovesAndReports ==
  /\ [](\A id \in KilledSet : id \notin Ids)
  /\ [][\A id \in 1..(MaxProcs + 1), b \in BOOLEAN :
          ApiKill(id, b) =>
            /\ lastOp'.op = "kill" /\ lastOp'.id = id
            /\ lastOp'.ret = (id \in Ids)
            /\ id \notin DOMAIN processes'
            /\ \A j \in Ids \ {id} : j \in DOMAIN processes' /\ processes'[j] = processes[j]
            /\ DOMAIN processes' \subseteq Ids
            /\ id \notin Ids => UNCHANGED <<processes, proc, nextId>>
            /\ id \in KilledSet => ~lastOp'.ret]_vars

\* A second kill of an id whose first kill returned true although
\* process.kill() threw.
C10_Witness ==
  /\ lastOp.op = "kill" /\ ~lastOp.ret
  /\ lastOp.id \in killedIds /\ proc[lastOp.id] = "running"

\* The listener calls a notify() of the given table makes, written out.
Delivered(table) ==
  /\ Len(notified') = Len(listeners)
  /\ \A i \in 1..Len(listeners) :
       /\ notified'[i].listener = listeners[i]
       /\ notified'[i].snapshot = table

\* C11: killAll() leaves the table empty whatever it held and whichever
\* process.kill() calls throw; every tracked process whose kill() does not
\* throw is terminated by it; each subscribed listener is called exactly
\* once, with the empty table.
C11_KillAllEmptiesTable ==
  [][\A t \in SUBSET Ids :
       ApiKillAll(t) =>
         /\ processes' = <<>>
         /\ \A p \in Ids \ t : proc[p] = "running" => proc'[p] = "killed"
         /\ \A p \in ProcIds \ (Ids \ t) : proc'[p] = proc[p]
         /\ Delivered(<<>>)]_vars

\* killAll() emptied a table of two entries although one kill() threw.
C11_Witness ==
  /\ lastOp.op = "killAll" /\ processes = <<>>
  /\ Len(issued) = 2 /\ killedIds = {}
  /\ proc[1] = "running" /\ proc[2] = "killed"
  /\ Len(notified) = 2

\* C12: the ids returned by register are strictly increasing in call order,
\* so each differs from every id returned before, also from ids whose
\* entries kill, killByPort, killAll or unregister have removed since.
C12_IdsNeverReused ==
  /\ [](\A i, j \in 1..Len(issued) : i < j => issued[i] < issued[j])
  /\ [][\A port \in Ports \cup {NoPort} :
          ApiRegister(port) =>
            /\ lastOp'.op = "register"
            /\ \A x \in Range(issued) : x < lastOp'.id
            /\ issued' = Append(issued, lastOp'.id)
            /\ lastOp'.id \in DOMAIN processes'
            /\ processes'[lastOp'.id].port = port]_vars

\* register returned a second id after the first entry was removed.
C12_Witness ==
  /\ lastOp.op = "register" /\ lastOp.id = 2
  /\ Ids = {2} /\ 1 \in killedIds

\* C13: killByPort(p) removes exactly the entries whose port equals p and
\* leaves every other entry (another port, or none) as it was, calls kill
\* on each removed process, and returns true iff some entry matched.
C13_KillByPortExact ==
  [][\A port \in Ports : \A t \in SUBSET Ids :
       ApiKillByPort(port, t) =>
         LET hit == {i \in Ids : processes[i].port = port} IN
         /\ DOMAIN processes' = Ids \ hit
         /\ \A j \in Ids \ hit : processes'[j] = processes[j]
         /\ \A q \in hit \ t : proc[q] = "running" => proc'[q] = "killed"
         /\ \A q \in ProcIds \ hit : proc'[q] = proc[q]
         /\ lastOp'.op = "killByPort"
         /\ lastOp'.ret = (hit # {})]_vars

\* killByPort matched one entry and left an entry without a port.
C13_Witness ==
  /\ lastOp.op = "killByPort" /\ lastOp.ret
  /\ \E i \in Ids : processes[i].port = NoPort
  /\ \E q \in Range(issued) \ Ids : proc[q] = "killed"

Before(seq, a, b) ==
  \E i, j \in 1..Len(seq) : i < j /\ seq[i] = a /\ seq[j] = b

\* C15: a listener whose unsubscribe function has been called is not
\* subscribed and is called by no later mutating operation; the remaining
\* listeners keep their order and are called first-subscribed first.
C15_UnsubscribedNotNotified ==
  /\ [](\A l \in unsubscribed : l \notin Range(listeners))
  /\ [][/\ \A l \in ListenerIds :
             ApiUnsubscribe(l) =>
               /\ l \notin Range(listeners')
               /\ Range(listeners') = Range(listeners) \ {l}
               /\ \A a, b \in ListenerIds \ {l} :
                    Before(listeners', a, b) <=> Before(listeners, a, b)
        /\ \A l \in ListenerIds :
             (ApiSubscribe(l) /\ l \notin Range(listeners)) =>
               listeners' = Append(listeners, l)
        /\ (notified' # notified /\ lastOp' # lastOp) =>
             /\ \A i \in 1..Len(notified') : notified'[i].listener \notin unsubscribed
             /\ Len(notified') = Len(listeners)
             /\ \A i \in 1..Len(listeners) : notified'[i].listener = listeners[i]]_vars

\* The first subscriber has unsubscribed; a later register called only
\* the second.
C15_Witness ==
  /\ unsubscribed = {1} /\ listeners = <<2>>
  /\ lastOp.op = "register" /\ lastOp.id = 2
  /\ Len(notified) = 1 /\ notified[1].listener = 2
  /\ DOMAIN notified[1].snapshot = {1, 2}

\* C16: the start process is registered by the step that spawns it, once;
\* once it has exited its entry is not in the registry: the exit handler
\* removes the entry without calling kill, and when kill/killAll removed
\* it first the handler's unregister changes nothing.
C16_StartProcessEntryGoneAfterExit ==
  /\ [](\A r \in RunIds :
          (runs[r].procId # NoProc /\ proc[runs[r].procId] \in {"exited", "terminated"})
            => runs[r].procId \notin Ids)
  /\ [][/\ \A r \in RunIds :
             StartSpawn(r, TRUE) =>
               /\ runs[r].procId = NoProc
               /\ runs'[r].procId \notin Range(issued)
               /\ issued' = Append(issued, runs'[r].procId)
               /\ DOMAIN processes' = Ids \cup {runs'[r].procId}
               /\ runs'[r].pc = "done"
        /\ \A r \in RunIds :
             StartExit(r) =>
               /\ DOMAIN processes' = Ids \ {runs[r].procId}
               /\ \A j \in DOMAIN processes' : processes'[j] = processes[j]
               /\ \A q \in ProcIds \ {runs[r].procId} : proc'[q] = proc[q]
               /\ proc'[runs[r].procId] \in {"exited", "terminated"}
               /\ runs[r].procId \notin Ids => processes' = processes]_vars

\* A start process exited after killAll had already removed its entry.
C16_Witness ==
  \E r \in RunIds :
    /\ runs[r].procId # NoProc
    /\ proc[runs[r].procId] = "terminated"
    /\ runs[r].procId \notin Ids

\* An analysis of a listing that could be read.
Analyzed == analysis.done /\ analysis.readdirOk

\* C17: the type is decided by the first rule that matches the root
\* listing, in the order package.json (node), requirements.txt (python), a
\* name containing 'dockerfile' in any case (docker), index.html (static),
\* else unknown; a listing of index.html alone is static, with no install
\* command and the static-serve start command.
C17_ClassificationOrder ==
  Analyzed =>
    LET t      == analysis.result.type
        pkg    == "package.json" \in fsFiles
        req    == "requirements.txt" \in fsFiles
        docker == fsFiles \cap {"Dockerfile", "app.DOCKERFILE"} # {}
        html   == "index.html" \in fsFiles
    IN /\ t = "node" <=> pkg
       /\ t = "python" <=> (~pkg /\ req)
       /\ t = "docker" <=> (~pkg /\ ~req /\ docker)
       /\ t = "static" <=> (~pkg /\ ~req /\ ~docker /\ html)
       /\ t = "unknown" <=> (~pkg /\ ~req /\ ~docker /\ ~html)
       /\ fsFiles = {"index.html"} =>
            /\ t = "static"
            /\ analysis.result.installCommand = NoCommand
            /\ analysis.result.startCommand = <<"npx", <<"--yes", "serve">>>>

\* An upper-case Dockerfile name wins over index.html.
C17_Witness ==
  /\ Analyzed
  /\ fsFiles = {"app.DOCKERFILE", "index.html", "docker-compose.yml"}
  /\ analysis.result.type = "docker"

ManagerOf(lockfile) ==
  CASE lockfile \in {"bun.lockb", "bun.lock"} -> "bun"
    [] lockfile = "pnpm-lock.yaml" -> "pnpm"
    [] lockfile = "yarn.lock" -> "yarn"
    [] lockfile = "package-lock.json" -> "npm"

Rank(manager) ==
  CASE manager = "bun" -> 4 [] manager = "pnpm" -> 3
    [] manager = "yarn" -> 2 [] manager = "npm" -> 1

\* C18: for every set of lockfiles in the listing detectPackageManager
\* returns one manager, that of a lockfile present and of no lower priority
\* (bun > pnpm > yarn > npm) than any other present; the analysis reports
\* it and installs with it; with no lockfile the analysis reports npm and
\* uses the npm install command.
C18_HighestPriorityManager ==
  (Analyzed /\ "package.json" \in fsFiles) =>
    LET present == fsFiles \cap {"bun.lockb", "bun.lock", "pnpm-lock.yaml",
                                  "yarn.lock", "package-lock.json"}
        pm == detectPackageManager(fsFiles)
    IN /\ present # {} =>
            /\ pm \in {ManagerOf(f) : f \in present}
            /\ \A f \in present : Rank(ManagerOf(f)) <= Rank(pm)
            /\ analysis.result.packageManager = pm
            /\ analysis.result.installCommand[1] = pm
       /\ present = {} =>
            /\ pm = Null
            /\ analysis.result.packageManager = "npm"
            /\ analysis.result.installCommand[1] = "npm"
       /\ analysis.result.installCommand[2][1] = "install"

\* Lockfiles of yarn, npm and bun together: bun.
C18_Witness ==
  /\ Analyzed
  /\ fsFiles = {"package.json", "yarn.lock", "package-lock.json", "bun.lock"}
  /\ analysis.result.packageManager = "bun"
  /\ analysis.result.installCommand = <<"bun", <<"install">>>>

DeclaredScript(n) ==
  \E i \in 1..Len(pkgJson.scripts) : pkgJson.scripts[i][1] = n

NoScripts ==
  ~pkgJson.ok \/ ~pkgJson.parses \/ ~pkgJson.hasScripts \/ Len(pkgJson.scripts) = 0

\* C19 (as stated): for a node project the start script is dev if declared,
\* else start if declared, else preview if declared, else the first
\* declared script; dev when the manifest cannot be read or parsed or
\* declares no scripts; the start command is npm run <script> whatever the
\* package manager.
C19_StartScriptByDeclaration ==
  (Analyzed /\ "package.json" \in fsFiles) =>
    analysis.result.startCommand =
      <<"npm", <<"run",
          IF NoScripts THEN "dev"
          ELSE IF DeclaredScript("dev") THEN "dev"
          ELSE IF DeclaredScript("start") THEN "start"
          ELSE IF DeclaredScript("preview") THEN "preview"
          ELSE pkgJson.scripts[1][1]>>>>

NonEmptyScript(n) ==
  \E i \in 1..Len(pkgJson.scripts) : pkgJson.scripts[i] = <<n, TRUE>>

IndexValue(n) == CASE n = "0" -> 0 [] n = "1" -> 1 [] OTHER -> -1

\* The first property name of the scripts object: the smallest array-index
\* name if one is declared, else the first declared name.
FirstKey ==
  LET sc  == pkgJson.scripts
      idx == {i \in 1..Len(sc) : IndexValue(sc[i][1]) >= 0}
  IN IF idx # {}
       THEN sc[CHOOSE i \in idx :
                 \A j \in idx : IndexValue(sc[i][1]) <= IndexValue(sc[j][1])][1]
       ELSE sc[1][1]

\* C19 (amended): for a node project the start script is dev if declared
\* with a non-empty command, else start likewise, else preview likewise,
\* else the first property name of the scripts object (array-index names
\* first, then declaration order); dev when the manifest cannot be read or
\* parsed or declares no scripts; the start command is npm run <script>
\* whatever the package manager.
C19_StartScriptByPriority ==
  (Analyzed /\ "package.json" \in fsFiles) =>
    analysis.result.startCommand =
      <<"npm", <<"run",
          IF NoScripts THEN "dev"
          ELSE IF NonEmptyScript("dev") THEN "dev"
          ELSE IF NonEmptyScript("start") THEN "start"
          ELSE IF NonEmptyScript("preview") THEN "preview"
          ELSE FirstKey>>>>

\* pnpm project whose dev script is empty and whose scripts include an
\* array-index name declared last: npm run 1.
C19_Witness ==
  /\ Analyzed
  /\ fsFiles = {"package.json", "pnpm-lock.yaml"}
  /\ pkgJson.scripts = <<<<"build", TRUE>>, <<"dev", FALSE>>, <<"1", TRUE>>>>
  /\ analysis.result.startCommand = <<"npm", <<"run", "1">>>>

InvalidManifest == "package.json" \in fsFiles /\ pkgJson.ok /\ ~pkgJson.parses

ReaddirFailed == analysis.done /\ ~analysis.readdirOk

ManifestFailed ==
  Analyzed /\ "package.json" \in fsFiles /\ (~pkgJson.ok \/ ~pkgJson.parses)

IsUnknownResult(res) ==
  /\ res.type = "unknown"
  /\ res.installCommand = NoCommand
  /\ res.startCommand = NoCommand
  /\ res.reason # ""

\* What analyzeProject may touch: the files of the sandbox, the runs'
\* spawns and the process table stay as they were.
SandboxUntouched == UNCHANGED <<fsFiles, pkgJson, runs, processes, proc>>

OpenIds == Range(terminalIds)

\* C22: under every sequence of add-terminal and close-terminal operations
\* at most 3 non-default sessions are open, the default session 0 is always
\* rendered and is never one of the closable ones, and an added session
\* gets an id that no earlier session had: the id is the counter's value,
\* which only grows and exceeds every id handed out so far.
C22_SessionCapAndFreshIds ==
  /\ [](/\ Len(terminalIds) <= MAX_TERMINALS
        /\ Cardinality(OpenIds) = Len(terminalIds)
        /\ Rendered(0) /\ 0 \notin OpenIds /\ sessions[0].shell # "killed"
        /\ \A id \in OpenIds : id < nextIdRef)
  /\ [][/\ nextIdRef' >= nextIdRef
        /\ \A id \in Range(terminalIds') \ OpenIds :
             /\ id >= nextIdRef
             /\ id < nextIdRef'
             /\ sessions'[id] = NewSession]_vars

C22_Witness ==
  /\ terminalIds = <<2, 3, 4>>
  /\ nextIdRef = 5
  /\ sessions[1].shell = "killed"

\* ------------------------------------------------------------------ C23

\* C23: closeTerminal(0) changes nothing; closing a non-default session
\* whose processRunning is true writes the interrupt byte to that session's
\* shell while the shell is still there, and only then is the session
\* removed from the open list and its shell killed; closing the active
\* session makes session 0 active.
C23_CloseInterruptsThenRemoves ==
  [][\A id \in TermIds : CloseTerminal(id) =>
       /\ id = 0 => UNCHANGED <<activeTerminal, terminalIds, nextIdRef,
                                  runningProcesses, sessions>>
       /\ (id # 0 /\ sessions[id].processRunning) =>
            /\ Connected(id)
            /\ lastInput' = [id |-> id, data |-> Interrupt]
            /\ sessions'[id].shell = "killed"
            /\ ~sessions'[id].processRunning
       /\ id # 0 => id \notin Range(terminalIds')
       /\ (id # 0 /\ activeTerminal = id) => activeTerminal' = 0]_vars

C23_Witness ==
  /\ lastInput = [id |-> 2, data |-> Interrupt]
  /\ terminalIds = <<1>>
  /\ nextIdRef = 3
  /\ sessions[2].shell = "killed"
  /\ ~sessions[2].processRunning
  /\ activeTerminal = 0

\* ------------------------------------------------------------------ C24

InterruptSent(id) ==
  \/ \E stops \in BOOLEAN : UserInput(id, Interrupt, stops)
  \/ activeTerminal = id /\ KillActiveProcess({})

\* C24: a matching output chunk sets a session's processRunning; it stays
\* set over any further output and is cleared only by a step that writes the
\* interrupt to that shell (the kill action, a typed Ctrl+C, or closing the
\* tab); an interrupt written to a connected shell clears it in the same
\* step, whether or not the hosted process stops.
C24_RunningStickyUntilInterrupt ==
  [][\A id \in TermIds :
       /\ OutputChunk(id, TRUE) => sessions'[id].processRunning
       /\ (sessions[id].processRunning /\ \E m \in BOOLEAN : OutputChunk(id, m))
            => sessions'[id].processRunning
       /\ (sessions[id].processRunning /\ ~sessions'[id].processRunning)
            => lastInput' = [id |-> id, data |-> Interrupt]
       /\ lastInput' = [id |-> id, data |-> Interrupt]
            => ~sessions'[id].processRunning
       /\ (Connected(id) /\ InterruptSent(id))
            => lastInput' = [id |-> id, data |-> Interrupt]]_vars

\* The flag was cleared by an interrupt although the hosted process goes on.
C24_Witness ==
  /\ sessions[1].shell = "live"
  /\ sessions[1].hosted
  /\ ~sessions[1].processRunning
  /\ lastInput = [id |-> 1, data |-> Interrupt]
  /\ sessions[0].processRunning

\* ------------------------------------------------------------------ C25

\* C25: when the process hosted by a shell session exits on its own, that
\* session's processRunning becomes false.
C25_ExitClearsRunning ==
  [][\A id \in TermIds : HostedProcessExit(id) => ~sessions'[id].processRunning]_vars

\* ------------------------------------------------------------------ C30

ActiveIsOpen == activeTerminal = 0 \/ activeTerminal \in OpenIds

\* C30: in every reachable state of the terminal tabs the active terminal
\* is session 0 or an open session, and the sessions marked as running are
\* session 0 and open sessions only.
C30_ActiveAndRunningAreOpen ==
  /\ ActiveIsOpen
  /\ runningProcesses \subseteq ({0} \cup OpenIds)

\* ------------------------------------------------------------------ C27

\* The runGeneration calls in flight for a cache key: promises not settled.
Generating(k) ==
  {p \in ReqIds : promises[p].state = "pending" /\ requests[p].key = k}

\* C27: at any time at most one runGeneration call is in flight per cache
\* key, under every interleaving of requests, also when a generation fails
\* while other requests wait on it.
C27_OneGenerationPerKey ==
  \A k \in CacheKeys : Cardinality(Generating(k)) <= 1

\* ------------------------------------------------------------------ C26

LockPcs == {"rmLock"}
PrePcs == {"preSpawn", "preWait"}
InstallPcs == {"installSpawn", "installWait", "installDelay"}

LockfilesDone(R) == R.plan.shouldRemoveLockfile => R.lockIdx = Len(lockfiles)

\* C26: within the Installing step the lockfiles are removed first, then
\* every pre-install command is run, then the install attempts are made; a
\* failed removal and a failed or timed-out pre-install command lead on to
\* the install command and leave the error and progress flags alone; with a
\* plan that has no install command the step removes nothing and spawns
\* nothing.
C26_InstallingStepOrder ==
  /\ [](\A r \in RunIds : LET R == runs[r] IN
          /\ R.pc \in LockPcs \cup PrePcs \cup InstallPcs
               => R.plan.installCommand # NoCommand
          /\ R.pc \in LockPcs
               => R.plan.shouldRemoveLockfile /\ R.preIdx = 0
                  /\ R.installSpawns = 0 /\ R.attempt = 0
          /\ R.pc \in PrePcs
               => LockfilesDone(R) /\ R.preIdx >= 1
                  /\ R.installSpawns = 0 /\ R.attempt = 0
          /\ R.pc \in InstallPcs
               => LockfilesDone(R) /\ R.preIdx = Len(R.plan.preInstallCommands)
                  /\ R.attempt >= 1)
  /\ [][\A r \in RunIds :
          /\ (runs[r].pc \in LockPcs \cup PrePcs /\ runs'[r] # runs[r])
               => /\ runs'[r].pc \in LockPcs \cup PrePcs \cup {"installSpawn"}
                  /\ UNCHANGED <<setupError, isSetupInProgress, isSetupComplete>>
          /\ (runs[r].pc = "analyze" /\ runs'[r].pc \in {"startSpawn", "done"})
               => /\ fsFiles' = fsFiles
                  /\ runs'[r].installSpawns = 0
                  /\ runs'[r].preIdx = 0
                  /\ runs'[r].lockIdx = 0]_vars

\* Both pre-install commands failed, one by timeout, the lockfiles were
\* gone through, and the install command was spawned all the same.
C26_Witness ==
  \E r \in RunIds :
    /\ runs[r].pc = "installWait"
    /\ runs[r].plan.shouldRemoveLockfile
    /\ runs[r].lockIdx = Len(lockfiles)
    /\ runs[r].preIdx = 2
    /\ runs[r].instKills = 1
    /\ Cardinality({i \in DOMAIN runs[r].msgs :
                      runs[r].msgs[i] = PreInstallFailedMessage}) = 2
    /\ runs[r].installSpawns = 1
    /\ setupError = Null

\* ------------------------------------------------------------------ C28

\* C28: every bootstrap run that has started eventually leaves the
\* in-progress state, given that every sandbox call returns and every
\* spawned process eventually exits or times out.
C28_RunLeavesInProgress == isSetupInProgress ~> ~isSetupInProgress

\* ------------------------------------------------------------------ C29

BootstrapUntouched ==
  /\ UNCHANGED orchVars
  /\ UNCHANGED <<runs, nextRun, lastDeps>>
  /\ Deps' = Deps

\* C29: the stop button of the terminal tabs (killAll through the registry)
\* empties the registry and leaves the orchestrator's bootstrap state as it
\* is -- isSetupComplete, isSetupInProgress, the preview URL and the step
\* index keep their values, no run starts and no dependency of the setup
\* effect changes -- and so does the exit of the start process that follows.
C29_KillAllLeavesBootstrapState ==
  [][/\ (\E t \in SUBSET Ids : KillActiveProcess(t))
          => processes' = <<>> /\ BootstrapUntouched
     /\ (\E r \in RunIds : StartExit(r) /\ proc[runs[r].procId] = "killed")
          => BootstrapUntouched /\ UNCHANGED setupError]_vars

\* The server was killed from the tabs after the preview became ready, and
\* its exit was handled: the preview still counts as ready.
C29_Witness ==
  /\ isSetupComplete /\ ~isSetupInProgress
  /\ previewUrl # ""
  /\ processes = <<>>
  /\ \E r \in RunIds :
       /\ runs[r].procId # NoProc
       /\ proc[runs[r].procId] = "terminated"

====
